---- MODULE Spec2Model ----
(***************************************************************************)
(* convex_hull_inter(Q, y, factor_h, factor_k) of src/convex_hull_inter.py *)
(* as a state machine: one call walks the chain of gates of the function,  *)
(* one action per statement group, and returns (pc = "done") or lets an    *)
(* exception escape (pc = "raised").  A second call on a related input     *)
(* (another factor_k, or the rows of Q and y permuted together) follows    *)
(* the first, so that two results can be compared.                         *)
(*                                                                         *)
(* Numbers.  Coordinates are integers 0..MaxCoord.  Every class's points   *)
(* are corners of an axis-parallel box, so the class hull is that box, its *)
(* facet normals are the unit vectors +-e_d that Qhull would report, and   *)
(* the vertices of an intersection of hulls are integer points.  The LP    *)
(* variables (x, t) are held in HALF units (X = 2x, T = 2t): the optimum   *)
(* of the LP over such rows is attained on that grid.  factor_k is held in *)
(* tenths (2 is 0.2) and the returned value in tenths of a volume unit.    *)
(* The joggle of option "QJ" (about 1e-11 relative) is below the grid's    *)
(* resolution and is not represented.                                      *)
(*                                                                         *)
(* The library calls (ConvexHull, linprog, HalfspaceIntersection) may end  *)
(* normally or raise; linprog may also report success = False.  Which of   *)
(* these happens is chosen freely the first time a step runs on an input   *)
(* and kept in env: the libraries are deterministic, so a later call on    *)
(* the same geometry meets the same outcome.                               *)
(***************************************************************************)
EXTENDS Integers, Sequences, FiniteSets, TLC

VARIABLES
  Q, y, factor_h, factor_k,                  \* the arguments of the call
  num_dimensions, unique_labels, idx, points, \* locals of the call
  all_halfspaces, halfspaces, res,
  feasible_point, intersection_vertices,
  pc, result, gate,                          \* position, returned value, gate that returned
  calls,                                     \* library calls made by the current call
  env,                                       \* outcomes of the library calls
  first, variant                             \* the first call and how the second differs

args   == <<Q, y, factor_h, factor_k>>
locals == <<num_dimensions, unique_labels, idx, points, all_halfspaces,
            halfspaces, res, feasible_point, intersection_vertices>>
vars   == <<args, locals, pc, result, gate, calls, env, first, variant>>

(***************************************************************************)
(* Bounds of the model                                                     *)
(***************************************************************************)
MaxCoord == 3

Dims     == {1, 2}           \* values of Q.shape[1]
Labels   == {0, 1}           \* values of the entries of y
FactorKs == {2, 5, 15}       \* factor_k in tenths: 0.2, 0.5, 1.5
FirstFactorKs == {2, 5}      \* factor_k of the first call
FactorHs == {1}              \* factor_h (never read by the function)

Coords == 0..MaxCoord
Halves == 0..(2 * MaxCoord)

(***************************************************************************)
(* Arithmetic helpers                                                      *)
(***************************************************************************)
RECURSIVE Pow2(_)
Pow2(n) == IF n = 0 THEN 1 ELSE 2 * Pow2(n - 1)

RECURSIVE DotFrom(_, _, _)
DotFrom(a, b, i) == IF i > Len(a) THEN 0
                    ELSE a[i] * b[i] + DotFrom(a, b, i + 1)

Dot(a, b) == DotFrom(a, b, 1)

SetMin(S) == CHOOSE m \in S : \A s \in S : m <= s
SetMax(S) == CHOOSE m \in S : \A s \in S : m >= s

Range(s) == {s[i] : i \in 1..Len(s)}

(***************************************************************************)
(* The statements of convex_hull_inter that compute values                 *)
(***************************************************************************)
\* The shape test without its emptiness clause.
BadShapes_NoEmptyCheck(q, l) ==
  \/ q.ndim # 2
  \/ l.ndim # 1
  \/ Len(q.rows) # Len(l.vals)

\* Line 34: the shape test.  Q is [ndim, ncols, rows], y is [ndim, vals];
\* Q.shape[0] is Len(Q.rows) and y.shape[0] is Len(y.vals).
BadShapes(q, l) ==
  \/ q.ndim # 2
  \/ l.ndim # 1
  \/ Len(q.rows) # Len(l.vals)
  \/ Len(q.rows) = 0

\* Line 39: np.unique(y), the distinct labels in ascending order.
RECURSIVE SortedSeq(_)
SortedSeq(S) ==
  IF S = {} THEN <<>>
  ELSE LET m == SetMin(S) IN <<m>> \o SortedSeq(S \ {m})

\* The distinct labels in order of first appearance instead of sorted.
RECURSIVE np_unique_Unsorted(_)
np_unique_Unsorted(v) ==
  IF Len(v) = 0 THEN <<>>
  ELSE LET front == np_unique_Unsorted(SubSeq(v, 1, Len(v) - 1))
       IN  IF v[Len(v)] \in Range(front) THEN front ELSE Append(front, v[Len(v)])

np_unique(v) == SortedSeq(Range(v))

\* The label test off by one.
TooFewLabels_OffByOne(u) == Len(u) < 1

\* Line 44: fewer than 2 distinct labels.
TooFewLabels(u) == Len(u) < 2

\* Line 53: Q[y == label], the rows of the class in row order.
RECURSIVE ClassPoints(_, _, _)
ClassPoints(rows, labs, label) ==
  IF Len(rows) = 0 THEN <<>>
  ELSE (IF labs[1] = label THEN <<rows[1]>> ELSE <<>>)
         \o ClassPoints(Tail(rows), Tail(labs), label)

\* The point-count test off by one.
TooFewPoints_OffByOne(pts, N) == Len(pts) < N

\* Line 59: the class cannot span N dimensions.
TooFewPoints(pts, N) == Len(pts) < N + 1

\* Line 65-66: ConvexHull(points).equations for points that hold every
\* corner of their bounding box: per dimension d the facets
\* -x_d + lo_d <= 0 and x_d - hi_d <= 0, each a row [a_1..a_N, b].
Lo(pts, d) == SetMin({p[d] : p \in Range(pts)})
Hi(pts, d) == SetMax({p[d] : p \in Range(pts)})

FacetRow(N, d, sign, offset) ==
  [j \in 1..(N + 1) |-> IF j = d THEN sign ELSE IF j = N + 1 THEN offset ELSE 0]

RECURSIVE BoxFacets(_, _, _)
BoxFacets(pts, N, d) ==
  IF d > N THEN <<>>
  ELSE <<FacetRow(N, d, -1, Lo(pts, d)), FacetRow(N, d, 1, 0 - Hi(pts, d))>>
         \o BoxFacets(pts, N, d + 1)

HullEquations(pts, N) == BoxFacets(pts, N, 1)

\* Line 73: np.vstack(all_halfspaces).
RECURSIVE VStack(_)
VStack(blocks) ==
  IF Len(blocks) = 0 THEN <<>> ELSE blocks[1] \o VStack(Tail(blocks))

\* Lines 83-92: the linear program.
LpA(hs, N) == [i \in 1..Len(hs) |-> SubSeq(hs[i], 1, N)]
LpB(hs, N) == [i \in 1..Len(hs) |-> 0 - hs[i][N + 1]]
CLp(N)     == [j \in 1..(N + 1) |-> IF j = N + 1 THEN -1 ELSE 0]
AUb(hs, N) == [i \in 1..Len(hs) |-> Append(LpA(hs, N)[i], 1)]
BUb(hs, N) == LpB(hs, N)

\* Line 95: linprog minimises c.z subject to A_ub.z <= b_ub over free
\* variables z = (x, t).  z is in half units, hence the 2 * b_ub.  Every row
\* of A_ub ends in 1 (line 91), so for a given x the largest feasible t is the
\* least of b_ub[i] - A[i].x, and the optimum is the largest such t over x.
LpOptimal(hs, N) ==
  LET A == AUb(hs, N)
      b == BUb(hs, N)
      c == CLp(N)
      Room(i, x)  == 2 * b[i] - Dot(A[i], Append(x, 0))
      SlackAt(x)  == SetMin({Room(i, x) : i \in 1..Len(hs)})
      at   == [x \in [1..N -> Halves] |-> SlackAt(x)]
      best == SetMax({at[x] : x \in DOMAIN at})
  IN  {[success |-> TRUE, x |-> Append(x, best), fun |-> Dot(c, Append(x, best))] :
         x \in {w \in DOMAIN at : at[w] = best}}

\* An unsuccessful solve: res.x and res.fun are where the solver stopped,
\* feasible or not.
LpStopped(N) ==
  {[success |-> FALSE, x |-> [j \in 1..(N + 1) |-> IF j = N + 1 THEN t ELSE 0],
    fun |-> 0 - t] : t \in {-1, 1}}

\* The tolerance test with the comparison turned round (res.fun < -1e-9).
AboveNegTol_Flipped(fun) == ~ ((0 - fun) <= 1 \div (10 ^ 9))

\* Line 99: res.fun > -1e-9.  fun is in half units, so the test is
\* fun / 2 > -1 / 10^9, that is -fun * 10^9 < 2, that is -fun <= 1 \div 10^9.
AboveNegTol(fun) == (0 - fun) <= 1 \div (10 ^ 9)

\* The LP gate without the tolerance test.
LpGateFails_IgnoreFun(r) == ~ r.success

\* The LP gate without the success test.
LpGateFails_IgnoreSuccess(r) == (0 - r.fun) <= 1 \div (10 ^ 9)

LpGateFails(r) == (~ r.success) \/ AboveNegTol(r.fun)

\* Line 103: res.x[:-1].
DropLast(z) == SubSeq(z, 1, Len(z) - 1)

\* Line 107: HalfspaceIntersection(halfspaces, feasible_point) needs the point
\* strictly inside every half-space, a.x + b < 0 (x in half units).
StrictlyInside(hs, N, x) ==
  /\ Len(x) = N
  /\ \A i \in 1..Len(hs) : Dot(LpA(hs, N)[i], x) + 2 * hs[i][N + 1] < 0

\* Line 114: its .intersections, the vertices of the polytope: the points
\* that satisfy every row and lie on facets whose normals span all N axes.
Vertices(hs, N) ==
  LET A == LpA(hs, N)
      Slack(i, v) == Dot(A[i], v) + hs[i][N + 1]
  IN  {v \in [1..N -> Coords] :
         /\ \A i \in 1..Len(hs) : Slack(i, v) <= 0
         /\ \A d \in 1..N : \E i \in 1..Len(hs) : hs[i][d] # 0 /\ Slack(i, v) = 0}

\* A numerically degenerate enumeration: only the vertices on one facet.
FlatVertices(hs, N) ==
  {v \in Vertices(hs, N) : Dot(LpA(hs, N)[1], v) + hs[1][N + 1] = 0}

\* The vertex-count test off by one.
TooFewVertices_OffByOne(V, N) == Cardinality(V) < N

\* Line 118: fewer than N+1 vertices.
TooFewVertices(V, N) == Cardinality(V) < N + 1

\* Line 123-125: ConvexHull(vertices).volume for the corners of a box.
RECURSIVE BoxVolume(_, _)
BoxVolume(V, d) ==
  IF d = 0 THEN 1
  ELSE (SetMax({v[d] : v \in V}) - SetMin({v[d] : v \in V})) * BoxVolume(V, d - 1)

\* The scale with the subtraction turned round, (factor_k - 1).
Scaled_Negated(volume, k) == volume * (k - 10)

\* The scale without its parentheses, volume * 1 - factor_k.
Scaled_NoParens(volume, k) == volume * 10 - k

\* Line 125: float(final_hull.volume) * (1 - factor_k), in tenths.
Scaled(volume, k) == volume * (10 - k)

(***************************************************************************)
(* Inputs                                                                  *)
(***************************************************************************)
Intervals == {iv \in Coords \X Coords : iv[1] <= iv[2]}
Boxes(N)  == [1..N -> Intervals]
\* Boxes that start at 0 along every axis from `from` on.
BoxesFrom0(N, from) == {b \in Boxes(N) : \A d \in from..N : b[d][1] = 0}

\* The k-th corner of a box, k in 0..2^N-1: bit d-1 of k picks lo or hi.
Corner(b, N, k) ==
  [d \in 1..N |-> IF (k \div Pow2(d - 1)) % 2 = 0 THEN b[d][1] ELSE b[d][2]]

CornerRows(b, N, n) == [i \in 1..n |-> Corner(b, N, i - 1)]

\* The rows of one class: none, fewer than N+1 corners of a box (too few to
\* span N dimensions), or all 2^N corners (a flat box repeats corners).  The
\* first class's box starts at the origin; the second class's box is placed
\* freely along the first axis.
ClassRows(N, boxes) ==
  {<<>>} \cup {CornerRows(b, N, n) : b \in boxes, n \in 1..N}
         \cup {CornerRows(b, N, Pow2(N)) : b \in boxes}

Const(n, v) == [i \in 1..n |-> v]

\* Ill-shaped variants of an input: another number of axes for Q or for y,
\* or one label more or one label fewer than Q has rows.
Shapes == [qd : {1, 2, 3}, yd : {0, 1, 2}, extra : {-1, 0, 1}]
GoodShape == [qd |-> 2, yd |-> 1, extra |-> 0]

MakeQ(N, rows, sh) == [ndim |-> sh.qd, ncols |-> N, rows |-> rows]
MakeY(vals, sh) ==
  [ndim |-> sh.yd,
   vals |-> IF sh.extra = 1 THEN Append(vals, 1)
            ELSE IF sh.extra = -1 /\ Len(vals) > 0 THEN SubSeq(vals, 1, Len(vals) - 1)
            ELSE vals]

\* The second call's row orders.
Reverse(M) == [i \in 1..M |-> M + 1 - i]
Rotate(M)  == [i \in 1..M |-> (i % M) + 1]
Perms(M)   == {Reverse(M), Rotate(M)}
Permute(s, p) == [i \in 1..Len(s) |-> s[p[i]]]

(***************************************************************************)
(* State                                                                   *)
(***************************************************************************)
NoRes   == [success |-> FALSE, x |-> <<>>, fun |-> 0]
NoCalls == [partition |-> 0, hull |-> 0, lp |-> 0, hsi |-> 0, final |-> 0]
NoEnv   == [hull |-> [l \in Labels |-> "unset"], lp |-> "unset",
            hsi |-> "unset", final |-> "unset"]
NoFirst == [pc |-> "none", gate |-> "none", result |-> 0, factor_k |-> 0,
            rows |-> <<>>]

\* The frame of a call that has not started or has ended.
ClearLocals ==
  /\ num_dimensions' = 0
  /\ unique_labels' = <<>>
  /\ idx' = 0
  /\ points' = <<>>
  /\ all_halfspaces' = <<>>
  /\ halfspaces' = <<>>
  /\ res' = NoRes
  /\ feasible_point' = <<>>
  /\ intersection_vertices' = {}

LocalsClear ==
  /\ num_dimensions = 0
  /\ unique_labels = <<>>
  /\ idx = 0
  /\ points = <<>>
  /\ all_halfspaces = <<>>
  /\ halfspaces = <<>>
  /\ res = NoRes
  /\ feasible_point = <<>>
  /\ intersection_vertices = {}

Init ==
  /\ \E N \in Dims :
       \E r0 \in ClassRows(N, BoxesFrom0(N, 1)), r1 \in ClassRows(N, BoxesFrom0(N, 2)) :
         \E sh \in (IF Len(r1) = 0 THEN Shapes ELSE {GoodShape}) :
           /\ Q = MakeQ(N, r0 \o r1, sh)
           /\ y = MakeY(Const(Len(r0), 0) \o Const(Len(r1), 1), sh)
  /\ factor_h \in FactorHs
  /\ factor_k \in FirstFactorKs
  /\ LocalsClear
  /\ pc = "validate"
  /\ result = 0
  /\ gate = "running"
  /\ calls = NoCalls
  /\ env = NoEnv
  /\ first = NoFirst
  /\ variant = "none"

\* `return v` at gate g (g = "none": the end of the chain).
Return(v, g) ==
  /\ pc' = "done"
  /\ result' = v
  /\ gate' = g
  /\ ClearLocals

\* The outcomes a library step may have: the recorded one, else any.
Outcomes(recorded, all) == IF recorded = "unset" THEN all ELSE {recorded}

\* ConvexHull needs at least 2-D data and raises otherwise.
HullOutcomes(N, recorded) ==
  IF N < 2 THEN {"raise"} ELSE Outcomes(recorded, {"ok", "raise"})

(***************************************************************************)
(* The call, statement by statement                                        *)
(***************************************************************************)
\* Lines 34-38.
Validate ==
  /\ pc = "validate"
  /\ IF BadShapes(Q, y)
     THEN /\ Return(0, "validation")
     ELSE /\ pc' = "labels"
          /\ num_dimensions' = Q.ncols
          /\ UNCHANGED <<unique_labels, idx, points, all_halfspaces, halfspaces,
                         res, feasible_point, intersection_vertices, result, gate>>
  /\ UNCHANGED <<args, calls, env, first, variant>>

\* Lines 39-50.
UniqueLabels ==
  /\ pc = "labels"
  /\ LET u == np_unique(y.vals)
     IN  IF TooFewLabels(u)
         THEN Return(0, "labels")
         ELSE /\ pc' = "loop"
              /\ unique_labels' = u
              /\ idx' = 1
              /\ all_halfspaces' = <<>>
              /\ UNCHANGED <<num_dimensions, points, halfspaces, res,
                             feasible_point, intersection_vertices, result, gate>>
  /\ UNCHANGED <<args, calls, env, first, variant>>

\* Lines 51-60: the next label of the loop, its points and the count test.
NextClass ==
  /\ pc = "loop"
  /\ idx <= Len(unique_labels)
  /\ LET pts == ClassPoints(Q.rows, y.vals, unique_labels[idx])
     IN  IF TooFewPoints(pts, num_dimensions)
         THEN Return(0, "points")
         ELSE /\ pc' = "hull"
              /\ points' = pts
              /\ UNCHANGED <<num_dimensions, unique_labels, idx, all_halfspaces,
                             halfspaces, res, feasible_point,
                             intersection_vertices, result, gate>>
  /\ calls' = [calls EXCEPT !.partition = @ + 1]
  /\ UNCHANGED <<args, env, first, variant>>

\* Lines 62-70: the class hull, inside try/except.
BuildHull ==
  /\ pc = "hull"
  /\ LET label == unique_labels[idx]
     IN  \E o \in HullOutcomes(num_dimensions, env.hull[label]) :
           /\ env' = [env EXCEPT !.hull[label] = o]
           /\ IF o = "raise"
              THEN Return(0, "hull")
              ELSE /\ pc' = "loop"
                   /\ all_halfspaces' =
                        Append(all_halfspaces, HullEquations(points, num_dimensions))
                   /\ idx' = idx + 1
                   /\ UNCHANGED <<num_dimensions, unique_labels, points, halfspaces,
                                  res, feasible_point, intersection_vertices,
                                  result, gate>>
  /\ calls' = [calls EXCEPT !.hull = @ + 1]
  /\ UNCHANGED <<args, first, variant>>

\* Line 73, after the last label.
Stack ==
  /\ pc = "loop"
  /\ idx > Len(unique_labels)
  /\ pc' = "lp"
  /\ halfspaces' = VStack(all_halfspaces)
  /\ UNCHANGED <<args, num_dimensions, unique_labels, idx, points, all_halfspaces,
                 res, feasible_point, intersection_vertices, result, gate,
                 calls, env, first, variant>>

\* Lines 83-95: linprog, outside every try block: its exception leaves the
\* function.
SolveLP ==
  /\ pc = "lp"
  /\ \E o \in Outcomes(env.lp, {"ok", "fail", "raise"}) :
       /\ env' = [env EXCEPT !.lp = o]
       /\ IF o = "raise"
          THEN /\ pc' = "raised"
               /\ ClearLocals
          ELSE /\ pc' = "lpgate"
               /\ res' \in (IF o = "ok" THEN LpOptimal(halfspaces, num_dimensions)
                                        ELSE LpStopped(num_dimensions))
               /\ UNCHANGED <<num_dimensions, unique_labels, idx, points,
                              all_halfspaces, halfspaces, feasible_point,
                              intersection_vertices>>
  /\ calls' = [calls EXCEPT !.lp = @ + 1]
  /\ UNCHANGED <<args, result, gate, first, variant>>

\* Lines 99-103.
CheckLP ==
  /\ pc = "lpgate"
  /\ IF LpGateFails(res)
     THEN Return(0, "lp")
     ELSE /\ pc' = "hsi"
          /\ feasible_point' = DropLast(res.x)
          /\ UNCHANGED <<num_dimensions, unique_labels, idx, points, all_halfspaces,
                         halfspaces, res, intersection_vertices, result, gate>>
  /\ UNCHANGED <<args, calls, env, first, variant>>

\* Lines 106-114: the vertex enumeration, inside try/except.  It raises when
\* the seed is not strictly inside.
EnumerateVertices ==
  /\ pc = "hsi"
  /\ \E o \in (IF StrictlyInside(halfspaces, num_dimensions, feasible_point)
               THEN Outcomes(env.hsi, {"ok", "flat", "raise"})
               ELSE {"raise"}) :
       /\ env' = [env EXCEPT !.hsi = o]
       /\ IF o = "raise"
          THEN Return(0, "enumeration")
          ELSE /\ pc' = "count"
               /\ intersection_vertices' =
                    (IF o = "ok" THEN Vertices(halfspaces, num_dimensions)
                                 ELSE FlatVertices(halfspaces, num_dimensions))
               /\ UNCHANGED <<num_dimensions, unique_labels, idx, points,
                              all_halfspaces, halfspaces, res, feasible_point,
                              result, gate>>
  /\ calls' = [calls EXCEPT !.hsi = @ + 1]
  /\ UNCHANGED <<args, first, variant>>

\* Lines 118-119.
CheckVertexCount ==
  /\ pc = "count"
  /\ IF TooFewVertices(intersection_vertices, num_dimensions)
     THEN Return(0, "vertices")
     ELSE /\ pc' = "final"
          /\ UNCHANGED <<locals, result, gate>>
  /\ UNCHANGED <<args, calls, env, first, variant>>

\* Lines 121-129: the final hull and the scaled volume, inside try/except.
FinalHull ==
  /\ pc = "final"
  /\ \E o \in HullOutcomes(num_dimensions, env.final) :
       /\ env' = [env EXCEPT !.final = o]
       /\ IF o = "raise"
          THEN Return(0, "final")
          ELSE Return(Scaled(BoxVolume(intersection_vertices, num_dimensions),
                             factor_k), "none")
  /\ calls' = [calls EXCEPT !.final = @ + 1]
  /\ UNCHANGED <<args, first, variant>>

(***************************************************************************)
(* The caller                                                              *)
(***************************************************************************)
\* After the first call the caller calls again, with another factor_k or with
\* the rows of Q and the entries of y permuted together.
CallAgain ==
  /\ pc \in {"done", "raised"}
  /\ variant = "none"
  /\ first' = [pc |-> pc, gate |-> gate, result |-> result,
               factor_k |-> factor_k, rows |-> Q.rows]
  /\ \/ /\ variant' = "rescale"
        /\ factor_k' \in FactorKs \ {factor_k}
        /\ UNCHANGED <<Q, y>>
     \/ /\ variant' = "permute"
        /\ Len(Q.rows) = Len(y.vals)
        /\ \E p \in Perms(Len(Q.rows)) :
             /\ Q' = [Q EXCEPT !.rows = Permute(Q.rows, p)]
             /\ y' = [y EXCEPT !.vals = Permute(y.vals, p)]
        /\ UNCHANGED factor_k
  /\ pc' = "validate"
  /\ result' = 0
  /\ gate' = "running"
  /\ calls' = NoCalls
  /\ UNCHANGED <<factor_h, locals, env>>

Next ==
  \/ Validate
  \/ UniqueLabels
  \/ NextClass
  \/ BuildHull
  \/ Stack
  \/ SolveLP
  \/ CheckLP
  \/ EnumerateVertices
  \/ CheckVertexCount
  \/ FinalHull
  \/ CallAgain

Spec == Init /\ [][Next]_vars

(***************************************************************************)
(* Facts about the input of the current call, read off Q and y directly    *)
(***************************************************************************)
InN         == Q.ncols
InLabels    == Range(y.vals)
InShapesOK  == Q.ndim = 2 /\ y.ndim = 1 /\ Len(Q.rows) = Len(y.vals) /\ Len(Q.rows) > 0
InClass(l)  == {Q.rows[i] : i \in {j \in 1..Len(Q.rows) : j <= Len(y.vals) /\ y.vals[j] = l}}
InCount(l)  == Cardinality({j \in 1..Len(Q.rows) : j <= Len(y.vals) /\ y.vals[j] = l})
InLo(l, d)  == SetMin({p[d] : p \in InClass(l)})
InHi(l, d)  == SetMax({p[d] : p \in InClass(l)})

\* Every class can span N dimensions.
InEnoughPoints == \A l \in InLabels : InCount(l) >= InN + 1

\* The hulls of two classes have no point in common: some axis separates them.
InDisjoint ==
  \E l \in InLabels, m \in InLabels, d \in 1..InN : l # m /\ InHi(l, d) < InLo(m, d)

\* Twice the largest uniform slack a point can have in every class hull: over
\* the axes, the least width of the common interval.
InSlack ==
  SetMin({SetMin({InHi(l, d) : l \in InLabels}) - SetMax({InLo(l, d) : l \in InLabels}) :
            d \in 1..InN})

\* Every class hull has positive extent along every axis.
InProper == \A l \in InLabels, d \in 1..InN : InLo(l, d) < InHi(l, d)

(***************************************************************************)
(* C1                                                                      *)
(***************************************************************************)
\* C1: whatever the library steps do, raising included, the call ends by
\* returning a number: no exception leaves convex_hull_inter, and a failed
\* step gives the return value 0.
C1_NoExceptionEscapes ==
  /\ pc # "raised"
  /\ (pc = "done" /\ gate # "none") => result = 0

(***************************************************************************)
(* C2                                                                      *)
(***************************************************************************)
\* C2: a nonzero value is returned only when every gate passed, in order:
\* shapes valid, at least 2 labels, every class with N+1 points and a hull,
\* the LP successful with positive slack, the vertices enumerated with at
\* least N+1 of them, the final hull built.  A stage runs only when the gates
\* before it passed, and a failed gate ends the call with 0 and no later stage.
C2_NonzeroOnlyThroughEveryGate ==
  /\ (pc = "done" /\ result # 0) =>
       /\ gate = "none"
       /\ calls = [partition |-> Cardinality(InLabels), hull |-> Cardinality(InLabels),
                   lp |-> 1, hsi |-> 1, final |-> 1]
  /\ calls.partition > 0 => InShapesOK /\ Cardinality(InLabels) >= 2
  /\ calls.hull > 0 => InShapesOK /\ Cardinality(InLabels) >= 2
  /\ calls.lp > 0 =>
       InEnoughPoints /\ \A l \in InLabels : env.hull[l] = "ok"
  /\ calls.hsi > 0 => calls.lp = 1 /\ env.lp = "ok" /\ InSlack > 0
  /\ pc = "final" => Cardinality(intersection_vertices) >= InN + 1
  /\ calls.final > 0 => calls.hsi = 1 /\ env.hsi = "ok"
  /\ gate \notin {"running", "none"} =>
       /\ pc = "done" /\ result = 0 /\ LocalsClear
       /\ gate \in {"validation", "labels"} => calls = NoCalls
       /\ gate \in {"points", "hull"} => calls.lp = 0 /\ calls.hsi = 0 /\ calls.final = 0
       /\ gate = "lp" => calls.hsi = 0 /\ calls.final = 0
       /\ gate \in {"enumeration", "vertices"} => calls.final = 0

\* A call that returned a nonzero value.
C2_Witness == pc = "done" /\ result # 0 /\ variant = "none"

(***************************************************************************)
(* C3                                                                      *)
(***************************************************************************)
\* C3: with factor_k <= 1 (10 tenths) the returned value is >= 0.
C3_NonNegative == (pc = "done" /\ factor_k <= 10) => result >= 0

\* The scaled volume was returned, with factor_k <= 1.
C3_Witness == pc = "done" /\ factor_k <= 10 /\ gate = "none" /\ result > 0

(***************************************************************************)
(* C4                                                                      *)
(***************************************************************************)
\* C4: when Q is not 2-D, y is not 1-D, the lengths differ or Q is empty, the
\* call returns 0 at once: it is never past the shape test and no class is
\* partitioned, no hull built, no LP solved, no vertices enumerated.
C4_BadShapesReturnZero ==
  (~ InShapesOK) =>
     /\ pc \in {"validate", "done"}
     /\ calls = NoCalls
     /\ pc = "done" => result = 0 /\ gate = "validation"

\* A call on mismatched lengths that returned.
C4_Witness == pc = "done" /\ Len(Q.rows) # Len(y.vals) /\ Q.ndim = 2 /\ y.ndim = 1

(***************************************************************************)
(* C5                                                                      *)
(***************************************************************************)
\* C5: when y holds fewer than 2 distinct labels the call returns 0 and never
\* builds a hull, whatever N and the points are.
C5_SingleClassZero ==
  Cardinality(InLabels) < 2 =>
     /\ calls.hull = 0
     /\ pc \in {"validate", "labels", "done"}
     /\ pc = "done" => result = 0

\* One class whose hull has positive volume in 2-D, and the call returned.
C5_Witness ==
  /\ pc = "done" /\ gate = "labels"
  /\ InShapesOK /\ InN = 2 /\ Cardinality(InLabels) = 1
  /\ InEnoughPoints /\ InProper

(***************************************************************************)
(* C6                                                                      *)
(***************************************************************************)
\* Each class has exactly N points.
C6_ExactlyNPerClass == InShapesOK /\ \A l \in InLabels : InCount(l) = InN

\* C6 as stated: each class has exactly N points; then the call returns 0
\* through the point-count test and never attempts a hull.
C6_Original ==
  C6_ExactlyNPerClass =>
     /\ calls.hull = 0
     /\ pc = "done" => result = 0 /\ gate = "points"

\* C6 amended: at least two distinct labels and each class has exactly N
\* points; then the call returns 0 through the point-count test and never
\* attempts a hull.
C6_Amended ==
  (C6_ExactlyNPerClass /\ Cardinality(InLabels) >= 2) =>
     /\ calls.hull = 0
     /\ pc = "done" => result = 0 /\ gate = "points"

\* Two classes of exactly 2 points each in 2-D, and the call returned.
C6_Witness ==
  /\ pc = "done" /\ C6_ExactlyNPerClass
  /\ Cardinality(InLabels) = 2 /\ InN = 2 /\ calls.partition = 1

(***************************************************************************)
(* C7                                                                      *)
(***************************************************************************)
\* C7: for two classes with disjoint hulls the call returns 0; the LP finds
\* no positive slack, the LP gate returns, and the vertex enumeration is
\* never reached.
C7_DisjointZero ==
  (InShapesOK /\ Cardinality(InLabels) = 2 /\ InDisjoint) =>
     /\ calls.hsi = 0
     /\ pc = "done" => result = 0
     /\ pc = "lpgate" => (~ res.success) \/ res.fun >= 0
     /\ (pc = "done" /\ calls.lp = 1) => gate = "lp"

\* Two separated boxes of positive area, the LP solved, the call returned.
C7_Witness ==
  /\ pc = "done" /\ gate = "lp" /\ env.lp = "ok"
  /\ InShapesOK /\ Cardinality(InLabels) = 2 /\ InDisjoint
  /\ InN = 2 /\ InProper

(***************************************************************************)
(* C8                                                                      *)
(***************************************************************************)
\* C8: two calls on the same Q, y, factor_h with factor_k = k1 and k2 stop at
\* the same gate and result(k1) * (1 - k2) = result(k2) * (1 - k1).
C8_LinearInFactorK ==
  (variant = "rescale" /\ pc \in {"done", "raised"}) =>
     /\ pc = first.pc
     /\ gate = first.gate
     /\ first.result * (10 - factor_k) = result * (10 - first.factor_k)

\* Calls with factor_k 0.2 and 0.5 that returned different nonzero values.
C8_Witness ==
  /\ variant = "rescale" /\ pc = "done"
  /\ {first.factor_k, factor_k} = {2, 5}
  /\ result # 0 /\ result # first.result

(***************************************************************************)
(* C9                                                                      *)
(***************************************************************************)
\* C9: permuting the rows of Q and the entries of y together changes neither
\* the gate the call stops at nor the value returned.
C9_PermutationInvariant ==
  (variant = "permute" /\ pc \in {"done", "raised"}) =>
     /\ pc = first.pc
     /\ gate = first.gate
     /\ result = first.result

\* A call on genuinely reordered rows that returned a nonzero value.
C9_Witness ==
  /\ variant = "permute" /\ pc = "done"
  /\ Q.rows # first.rows /\ result # 0

(***************************************************************************)
(* C10                                                                     *)
(***************************************************************************)
\* C10: HalfspaceIntersection is called only after the LP reported success
\* with slack t* > 0, and its seed satisfies every stacked row strictly,
\* a.x + b < 0 (x in half units, so a.X + 2b < 0).
C10_SeedStrictlyInterior ==
  /\ pc = "hsi" =>
       /\ res.success /\ res.fun < 0
       /\ Len(feasible_point) = InN
       /\ \A i \in 1..Len(halfspaces) :
            Dot(SubSeq(halfspaces[i], 1, InN), feasible_point)
              + 2 * halfspaces[i][InN + 1] < 0
       /\ \A l \in InLabels, d \in 1..InN :
            2 * InLo(l, d) < feasible_point[d] /\ feasible_point[d] < 2 * InHi(l, d)
  /\ calls.hsi > 0 => env.lp = "ok" /\ InSlack > 0

\* The enumeration was called and produced the vertices.
C10_Witness == pc = "count" /\ calls.hsi = 1 /\ env.hsi = "ok"

====
